---- MODULE Spec2Model ----
(***************************************************************************)
(* rox: a Lox front end in Rust.  The module models the scanner            *)
(* (src/src/scanner.rs), the recursive-descent parser                      *)
(* (src/src/parser.rs) and the tree-walking interpreter with its           *)
(* environment chain (src/src/interpreter.rs, src/src/environment.rs,      *)
(* src/src/value.rs).                                                      *)
(*                                                                         *)
(* Spec        the interpreter: interpret() runs a statement sequence; the *)
(*             statements are the caller's input and are drawn one by one  *)
(*             as the for loops of interpret/execute_block reach them.     *)
(* ParserSpec  the parser: parse() over a token sequence drawn in Init.    *)
(* ScannerSpec the scanner (src/src/scanner.rs): scan_tokens() over a      *)
(*             source text drawn in Init, one scan_token() per step.       *)
(* ExpressionSpec  the parser over the tokens of one expression statement. *)
(* EvalSpec    evaluate_expression on operator expressions over literals   *)
(*             and variables, against a global frame drawn in Init.        *)
(***************************************************************************)
EXTENDS Integers, Sequences, FiniteSets, TLC

VARIABLES
    phase,          \* "idle": no interpret call is running; "running"
    environments,   \* interpret's local Vec<Environment>, innermost frame last
    loops,          \* the active for loops: interpret's, then one per open block
    printed,        \* what the latest step wrote to stdout (<<>> or one line)
    size,           \* statements handed to the interpreter so far (bounded)
    calls,          \* interpret calls made so far
    planned,        \* length of the statement sequence of the running call
    statuses,       \* history: one entry per finished top-level statement
    cur,            \* history: the top-level statement being executed
    last,           \* history: summary of the latest step
    tokens,         \* Parser.tokens
    current,        \* Parser.current, a 0-based index into tokens
    statements,     \* parse's local Vec<Stmt>
    diagnostics,    \* lines written by token_error during the parse
    presult,        \* "parsing", or what parse returned: "Ok" or the ParserError
    source,         \* Scanner.source, a sequence of one-character strings
    scanned,        \* Scanner.tokens
    start,          \* Scanner.start
    position,       \* Scanner.current
    line_no,        \* Scanner.line
    lexical,        \* lines written by line_error during the scan
    sresult,        \* "scanning", or "returned" once scan_tokens has returned
    input,          \* the expression handed to evaluate_expression
    outcome,        \* NoOutcome, or the Result evaluate_expression returned
    given           \* history: the chain evaluate_expression was called with

ivars == <<phase, environments, loops, printed, size, calls, planned, statuses, cur, last>>
pvars == <<tokens, current, statements, diagnostics, presult>>
svars == <<source, scanned, start, position, line_no, lexical, sresult>>
evars == <<input, outcome, given>>
vars == <<phase, environments, loops, printed, size, calls, planned, statuses, cur, last,
          tokens, current, statements, diagnostics, presult,
          source, scanned, start, position, line_no, lexical, sresult,
          input, outcome, given>>

\* ---------------------------------------------------------------- bounds
\* statements per run, a block counting for its nested statements (an empty
\* block for one)
MaxSize == 3
\* statements of one block
MaxBlockLen == 2
\* blocks open at the same time
MaxDepth == 2
\* interpret calls on one Interpreter
MaxCalls == 1
\* interpret calls on one Interpreter, for programs without blocks
MaxRepeats == 2
\* statement fragments concatenated into one token sequence
MaxFragments == 3
\* statement fragments of the token sequences parse is checked to return on
MaxLiveFragments == 2

\* ------------------------------------------------------------ value.rs
\* enum Value { String(String), Double(f64), Bool(bool), Nil }.  One record
\* shape for all variants, so that derived PartialEq is record equality.
\* Doubles are the integer-valued ones; see Exact below.
StringValue(s) == [t |-> "String", s |-> s, d |-> 0, b |-> FALSE]
DoubleValue(d) == [t |-> "Double", s |-> "", d |-> d, b |-> FALSE]
BoolValue(b) == [t |-> "Bool", s |-> "", d |-> 0, b |-> b]
NilValue == [t |-> "Nil", s |-> "", d |-> 0, b |-> FALSE]
\* Option<Value>::None
NoneValue == [t |-> "None", s |-> "", d |-> 0, b |-> FALSE]

\* impl ToString for bool
BoolToString(b) == IF b THEN "true" ELSE "false"

\* impl ToString for Value
ValueToString(value) ==
    CASE value.t = "String" -> "\"" \o value.s \o "\""
      [] value.t = "Double" -> ToString(value.d)
      [] value.t = "Bool" -> BoolToString(value.b)
      [] value.t = "Nil" -> "nil"

\* #[derive(Debug)] for Value, as {:?} prints it
ValueDebug(value) ==
    CASE value.t = "String" -> "String(\"" \o value.s \o "\")"
      [] value.t = "Double" -> "Double(" \o ToString(value.d) \o ".0)"
      [] value.t = "Bool" -> "Bool(" \o BoolToString(value.b) \o ")"
      [] value.t = "Nil" -> "Nil"

\* fn is_truthy
is_truthy(value) ==
    CASE value.t = "String" -> TRUE
      [] value.t = "Double" -> TRUE
      [] value.t = "Bool" -> value.b
      [] value.t = "Nil" -> FALSE

\* ----------------------------------------------------------- scanner.rs
\* struct Token { type_, lexeme, literal, line }
Token(type_, lexeme, literal, line) ==
    [type_ |-> type_, lexeme |-> lexeme, literal |-> literal, line |-> line]

\* #[derive(Debug)] for Token
TokenDebug(token) ==
    "Token { type_: " \o token.type_ \o ", lexeme: \"" \o token.lexeme
        \o "\", literal: "
        \o (IF token.literal = NoneValue THEN "None"
            ELSE "Some(" \o ValueDebug(token.literal) \o ")")
        \o ", line: " \o ToString(token.line) \o " }"

\* ------------------------------------------------------- environment.rs
\* Environment::new: no enclosing frame, no values.  values maps the names
\* declared in the frame to Option<Value>.
NewEnvironment == [enclosing |-> "None", values |-> [n \in {} |-> NoneValue]]

\* Environment::define: HashMap::insert
EnvironmentDefine(env, name, value) ==
    [env EXCEPT !.values =
        [n \in (DOMAIN env.values) \cup {name} |->
            IF n = name THEN value ELSE env.values[n]]]

\* Environment::assign: [found, env].  Every frame the interpreter creates
\* comes from Environment::new, so enclosing is None and the walk ends here.
EnvironmentAssign(env, name, value) ==
    IF name \in DOMAIN env.values
    THEN [found |-> TRUE, env |-> [env EXCEPT !.values[name] = value]]
    ELSE [found |-> FALSE, env |-> env]

\* Environment::get: Ok(Option<Value>) or Err(NameDoesNotExist)
EnvironmentGet(env, name) ==
    IF name \in DOMAIN env.values
    THEN [ok |-> TRUE, value |-> env.values[name]]
    ELSE [ok |-> FALSE, value |-> NoneValue]

\* ------------------------------------------------------------ parser.rs
\* enum Expr
Literal(value) == [kind |-> "Literal", value |-> value]
Grouping(expr) == [kind |-> "Grouping", expr |-> expr]
Unary(operator, right) == [kind |-> "Unary", operator |-> operator, right |-> right]
Binary(left, operator, right) ==
    [kind |-> "Binary", left |-> left, operator |-> operator, right |-> right]
Variable(name) == [kind |-> "Variable", name |-> name]
Assign(name, value) == [kind |-> "Assign", name |-> name, value |-> value]

\* Option<Expr>::None, the absent initializer of Stmt::Var
NoExpr == [kind |-> "None"]

\* enum Stmt
BlockStmt(stmts) == [kind |-> "Block", statements |-> stmts]
ExpressionStmt(expr) == [kind |-> "Expression", expr |-> expr]
PrintStmt(expr) == [kind |-> "Print", expr |-> expr]
VarStmt(name, initialiser) == [kind |-> "Var", name |-> name, initialiser |-> initialiser]

\* ------------------------------------------------------- interpreter.rs
\* enum EvaluationError, and no error at all
NoToken == Token("None", "", NoneValue, 0)
NoError == [kind |-> "None", token |-> NoToken, message |-> ""]
InvalidUnaryOperand(token, message) ==
    [kind |-> "InvalidUnaryOperand", token |-> token, message |-> message]
InvalidBinaryOperand(token, message) ==
    [kind |-> "InvalidBinaryOperand", token |-> token, message |-> message]
VariableDoesNotExist == [kind |-> "VariableDoesNotExist", token |-> NoToken, message |-> ""]
InvalidAssignment == [kind |-> "InvalidAssignment", token |-> NoToken, message |-> ""]

\* #[derive(Debug)] for EvaluationError
ErrorDebug(err) ==
    IF err.kind \in {"InvalidUnaryOperand", "InvalidBinaryOperand"}
    THEN err.kind \o "(" \o TokenDebug(err.token) \o ", \"" \o err.message \o "\")"
    ELSE err.kind

\* Result<Value, EvaluationError>
Ok(value) == [ok |-> TRUE, value |-> value, err |-> NoError]
Err(err) == [ok |-> FALSE, value |-> NoneValue, err |-> err]

\* (mutant) define in the first, global frame
DefineInGlobal(envs, name, value) ==
    IF Len(envs) > 0
    THEN [envs EXCEPT ![1] = EnvironmentDefine(envs[1], name, value)]
    ELSE envs

\* Interpreter::define: the last frame of the chain
InterpreterDefine(envs, name, value) ==
    IF Len(envs) > 0
    THEN [envs EXCEPT ![Len(envs)] = EnvironmentDefine(envs[Len(envs)], name, value)]
    ELSE envs

\* Interpreter::assign, the loop over iter_mut().rev() from frame i down:
\* [found, environments, frame], frame the index of the frame written
RECURSIVE AssignFrom(_, _, _, _)
AssignFrom(envs, i, name, value) ==
    IF i = 0 THEN [found |-> FALSE, environments |-> envs, frame |-> 0]
    ELSE LET r == EnvironmentAssign(envs[i], name.lexeme, value)
         IN  IF r.found
             THEN [found |-> TRUE, environments |-> [envs EXCEPT ![i] = r.env],
                   frame |-> i]
             ELSE AssignFrom(envs, i - 1, name, value)

\* (mutant) the loop without rev(): the outermost frame with the name wins
RECURSIVE AssignUpFrom(_, _, _, _)
AssignUpFrom(envs, i, name, value) ==
    IF i > Len(envs) THEN [found |-> FALSE, environments |-> envs, frame |-> 0]
    ELSE LET r == EnvironmentAssign(envs[i], name.lexeme, value)
         IN  IF r.found
             THEN [found |-> TRUE, environments |-> [envs EXCEPT ![i] = r.env],
                   frame |-> i]
             ELSE AssignUpFrom(envs, i + 1, name, value)
AssignOutermost(envs, name, value) == AssignUpFrom(envs, 1, name, value)

\* (mutant) an unknown name is declared in the innermost frame
AssignOrDeclare(envs, name, value) ==
    LET a == AssignFrom(envs, Len(envs), name, value)
    IN  IF a.found \/ Len(envs) = 0 THEN a
        ELSE [found |-> TRUE,
              environments |->
                  [envs EXCEPT ![Len(envs)] =
                      EnvironmentDefine(envs[Len(envs)], name.lexeme, value)],
              frame |-> Len(envs)]

\* Interpreter::assign
InterpreterAssign(envs, name, value) == AssignFrom(envs, Len(envs), name, value)

\* Interpreter::get, the loop over iter().rev() from frame i down
RECURSIVE GetFrom(_, _, _)
GetFrom(envs, i, name) ==
    IF i = 0 THEN [ok |-> FALSE, value |-> NoneValue]
    ELSE LET r == EnvironmentGet(envs[i], name.lexeme)
         IN  IF r.ok THEN r ELSE GetFrom(envs, i - 1, name)

\* (mutant) the loop without rev(): the outermost frame with the name wins
RECURSIVE GetUpFrom(_, _, _)
GetUpFrom(envs, i, name) ==
    IF i > Len(envs) THEN [ok |-> FALSE, value |-> NoneValue]
    ELSE LET r == EnvironmentGet(envs[i], name.lexeme)
         IN  IF r.ok THEN r ELSE GetUpFrom(envs, i + 1, name)
GetOutermost(envs, name) == GetUpFrom(envs, 1, name)

\* Interpreter::get
InterpreterGet(envs, name) == GetFrom(envs, Len(envs), name)

\* f64 arithmetic on the integer-valued doubles.  Exact... is FALSE where
\* the f64 result is none of them (a fraction, an infinity, NaN, -0.0);
\* the model runs no program that computes such a value.
Abs(d) == IF d < 0 THEN 0 - d ELSE d
ExactNeg(d) == d # 0
ExactMul(l, r) == ~(l * r = 0 /\ (l < 0 \/ r < 0))
ExactDiv(l, r) == r # 0 /\ Abs(l) % Abs(r) = 0 /\ ~(l = 0 /\ r < 0)
Quotient(l, r) ==
    IF r = 0 THEN 0
    ELSE IF (l < 0) = (r < 0) THEN Abs(l) \div Abs(r) ELSE 0 - (Abs(l) \div Abs(r))

\* evaluate_unary, the match on (operator type, value)
UnaryResult(operator, value) ==
    CASE operator.type_ = "Minus" /\ value.ok /\ value.value.t = "Double" ->
            Ok(DoubleValue(0 - value.value.d))
      [] operator.type_ = "Minus" /\ value.ok /\ value.value.t # "Double" ->
            Err(InvalidUnaryOperand(operator, "Operand must be a number"))
      [] operator.type_ = "Bang" /\ value.ok ->
            Ok(BoolValue(~is_truthy(value.value)))
      [] operator.type_ \notin {"Minus", "Bang"} /\ value.ok ->
            Err(InvalidUnaryOperand(operator, "Unrecognised unary operation"))
      [] ~value.ok -> value

Numbers(left, right) ==
    left.ok /\ right.ok /\ left.value.t = "Double" /\ right.value.t = "Double"

\* (mutant) + also takes a string and a number, yielding the string
BinaryResultLenient(left, operator, right) ==
    LET ty == operator.type_
        both == left.ok /\ right.ok
        nums == Numbers(left, right)
        l == left.value.d
        r == right.value.d
        mustBeNumbers == Err(InvalidBinaryOperand(operator, "Operands must be numbers"))
    IN  CASE ty = "Minus" /\ nums -> Ok(DoubleValue(l - r))
          [] ty = "Minus" /\ both /\ ~nums -> mustBeNumbers
          [] ty = "Slash" /\ nums -> Ok(DoubleValue(Quotient(l, r)))
          [] ty = "Slash" /\ both /\ ~nums -> mustBeNumbers
          [] ty = "Star" /\ nums -> Ok(DoubleValue(l * r))
          [] ty = "Star" /\ both /\ ~nums -> mustBeNumbers
          [] ty = "Plus" /\ nums -> Ok(DoubleValue(l + r))
          [] ty = "Plus" /\ both /\ left.value.t = "String" /\ right.value.t = "String" ->
                Ok(StringValue(left.value.s \o right.value.s))
          [] ty = "Plus" /\ both /\ left.value.t = "String" /\ right.value.t = "Double" ->
                Ok(left.value)
          [] ty = "Plus" /\ both /\ ~nums
                /\ ~(left.value.t = "String" /\ right.value.t \in {"String", "Double"}) ->
                Err(InvalidBinaryOperand(operator,
                                         "Operands must be two numbers or two strings"))
          [] ty = "Greater" /\ nums -> Ok(BoolValue(l > r))
          [] ty = "Greater" /\ both /\ ~nums -> mustBeNumbers
          [] ty = "GreaterEqual" /\ nums -> Ok(BoolValue(l >= r))
          [] ty = "GreaterEqual" /\ both /\ ~nums -> mustBeNumbers
          [] ty = "Less" /\ nums -> Ok(BoolValue(l > r))
          [] ty = "Less" /\ both /\ ~nums -> mustBeNumbers
          [] ty = "LessEqual" /\ nums -> Ok(BoolValue(l >= r))
          [] ty = "LessEqual" /\ both /\ ~nums -> mustBeNumbers
          [] ty = "BangEqual" /\ both -> Ok(BoolValue(left.value # right.value))
          [] ty = "EqualEqual" /\ both -> Ok(BoolValue(left.value = right.value))
          [] OTHER ->
                Err(InvalidBinaryOperand(operator, "Unrecognised binary operation"))

\* evaluate_binary, the match on (left, operator type, right), arm by arm
BinaryResult(left, operator, right) ==
    LET ty == operator.type_
        both == left.ok /\ right.ok
        nums == Numbers(left, right)
        l == left.value.d
        r == right.value.d
        mustBeNumbers == Err(InvalidBinaryOperand(operator, "Operands must be numbers"))
    IN  CASE ty = "Minus" /\ nums -> Ok(DoubleValue(l - r))
          [] ty = "Minus" /\ both /\ ~nums -> mustBeNumbers
          [] ty = "Slash" /\ nums -> Ok(DoubleValue(Quotient(l, r)))
          [] ty = "Slash" /\ both /\ ~nums -> mustBeNumbers
          [] ty = "Star" /\ nums -> Ok(DoubleValue(l * r))
          [] ty = "Star" /\ both /\ ~nums -> mustBeNumbers
          [] ty = "Plus" /\ nums -> Ok(DoubleValue(l + r))
          [] ty = "Plus" /\ both /\ left.value.t = "String" /\ right.value.t = "String" ->
                Ok(StringValue(left.value.s \o right.value.s))
          [] ty = "Plus" /\ both /\ ~nums
                /\ ~(left.value.t = "String" /\ right.value.t = "String") ->
                Err(InvalidBinaryOperand(operator,
                                         "Operands must be two numbers or two strings"))
          [] ty = "Greater" /\ nums -> Ok(BoolValue(l > r))
          [] ty = "Greater" /\ both /\ ~nums -> mustBeNumbers
          [] ty = "GreaterEqual" /\ nums -> Ok(BoolValue(l >= r))
          [] ty = "GreaterEqual" /\ both /\ ~nums -> mustBeNumbers
          [] ty = "Less" /\ nums -> Ok(BoolValue(l > r))
          [] ty = "Less" /\ both /\ ~nums -> mustBeNumbers
          [] ty = "LessEqual" /\ nums -> Ok(BoolValue(l >= r))
          [] ty = "LessEqual" /\ both /\ ~nums -> mustBeNumbers
          [] ty = "BangEqual" /\ both -> Ok(BoolValue(left.value # right.value))
          [] ty = "EqualEqual" /\ both -> Ok(BoolValue(left.value = right.value))
          [] OTHER ->
                Err(InvalidBinaryOperand(operator, "Unrecognised binary operation"))

\* whether the f64 result of the operation is one of the modelled doubles
UnaryExact(operator, value) ==
    (operator.type_ = "Minus" /\ value.ok /\ value.value.t = "Double")
        => ExactNeg(value.value.d)
BinaryExact(left, operator, right) ==
    Numbers(left, right) =>
        /\ left.value.s = "" /\ right.value.s = ""
        /\ CASE operator.type_ = "Star" -> ExactMul(left.value.d, right.value.d)
          [] operator.type_ = "Slash" -> ExactDiv(left.value.d, right.value.d)
          [] OTHER -> TRUE

\* evaluate_expression, with evaluate_unary and evaluate_binary:
\* [res, environments, writes, exact].  res is the Result, environments the
\* chain as the evaluation leaves it, writes the indices of the frames that
\* Interpreter::assign wrote (history), exact as above.
RECURSIVE Evaluate(_, _)
Evaluate(expr, envs) ==
    CASE expr.kind = "Literal" ->
            [res |-> Ok(expr.value), environments |-> envs, writes |-> {}, exact |-> TRUE]
      [] expr.kind = "Grouping" -> Evaluate(expr.expr, envs)
      [] expr.kind = "Unary" ->
            LET value == Evaluate(expr.right, envs)
            IN  [value EXCEPT !.res = UnaryResult(expr.operator, value.res),
                              !.exact = value.exact
                                        /\ UnaryExact(expr.operator, value.res)]
      [] expr.kind = "Binary" ->
            LET left == Evaluate(expr.left, envs)
                right == Evaluate(expr.right, left.environments)
            IN  [res |-> BinaryResult(left.res, expr.operator, right.res),
                 environments |-> right.environments,
                 writes |-> left.writes \cup right.writes,
                 exact |-> left.exact /\ right.exact
                           /\ BinaryExact(left.res, expr.operator, right.res)]
      [] expr.kind = "Variable" ->
            LET got == InterpreterGet(envs, expr.name)
            IN  [res |-> IF got.ok
                         THEN Ok(IF got.value = NoneValue THEN NilValue ELSE got.value)
                         ELSE Err(VariableDoesNotExist),
                 environments |-> envs, writes |-> {}, exact |-> TRUE]
      [] expr.kind = "Assign" ->
            LET result == Evaluate(expr.value, envs)
                a == InterpreterAssign(result.environments, expr.name, result.res.value)
            IN  IF ~result.res.ok THEN result
                ELSE IF a.found
                THEN [result EXCEPT !.environments = a.environments,
                                    !.writes = @ \cup {a.frame}]
                ELSE [result EXCEPT !.res = Err(InvalidAssignment)]

\* (mutant) a failed initialiser still declares the name, uninitialized
ExecuteVarDeclaring(statement, envs) ==
    IF statement.initialiser = NoExpr
    THEN [environments |-> InterpreterDefine(envs, statement.name.lexeme, NoneValue),
          printed |-> <<>>, ok |-> TRUE, writes |-> {}, exact |-> TRUE]
    ELSE LET value == Evaluate(statement.initialiser, envs)
         IN  [environments |->
                  InterpreterDefine(value.environments, statement.name.lexeme,
                                    value.res.value),
              printed |-> IF value.res.ok THEN <<>>
                          ELSE <<ErrorDebug(value.res.err)>>,
              ok |-> value.res.ok, writes |-> value.writes,
              exact |-> value.exact]

\* execute_statement, the Stmt::Var arm
ExecuteVar(statement, envs) ==
    IF statement.initialiser = NoExpr
    THEN [environments |-> InterpreterDefine(envs, statement.name.lexeme, NoneValue),
          printed |-> <<>>, ok |-> TRUE, writes |-> {}, exact |-> TRUE]
    ELSE LET value == Evaluate(statement.initialiser, envs)
         IN  [environments |->
                  IF value.res.ok
                  THEN InterpreterDefine(value.environments,
                                         statement.name.lexeme, value.res.value)
                  ELSE value.environments,
              printed |-> IF value.res.ok THEN <<>>
                          ELSE <<ErrorDebug(value.res.err)>>,
              ok |-> value.res.ok, writes |-> value.writes,
              exact |-> value.exact]

\* execute_statement, the Print, Expression and Var arms (the Block arm is
\* the action ExecuteBlock): [environments, printed, ok, writes, exact],
\* printed the lines println! wrote, ok whether no error was reported
ExecuteStatement(statement, envs) ==
    CASE statement.kind = "Print" ->
            LET result == Evaluate(statement.expr, envs)
            IN  [environments |-> result.environments,
                 printed |-> IF result.res.ok
                             THEN <<ValueToString(result.res.value)>>
                             ELSE <<ErrorDebug(result.res.err)>>,
                 ok |-> result.res.ok, writes |-> result.writes,
                 exact |-> result.exact]
      [] statement.kind = "Expression" ->
            LET result == Evaluate(statement.expr, envs)
            IN  [environments |-> result.environments,
                 printed |-> IF result.res.ok THEN <<>>
                             ELSE <<ErrorDebug(result.res.err)>>,
                 ok |-> result.res.ok, writes |-> result.writes,
                 exact |-> result.exact]
      [] statement.kind = "Var" -> ExecuteVar(statement, envs)

\* One for loop over a statement sequence of length len: i statements taken
\* from the iterator; ran counts the statements executed (history).
Loop(len) == [len |-> len, i |-> 0, ran |-> 0]
Top(stack) == stack[Len(stack)]
Pop(stack) == SubSeq(stack, 1, Len(stack) - 1)

\* (mutant) a reported error ends every loop of the top-level statement
AbortTopLevelStatement(stack, ok) ==
    [k \in 1..Len(stack) |->
        IF k = Len(stack) THEN [stack[k] EXCEPT !.i = IF ok \/ k = 1 THEN @ + 1 ELSE stack[k].len,
                                                !.ran = @ + 1]
        ELSE IF ok \/ k = 1 THEN stack[k]
        ELSE [stack[k] EXCEPT !.i = stack[k].len]]

\* (mutant) a reported error ends the run
AbortRun(stack, ok) ==
    [k \in 1..Len(stack) |->
        IF k = Len(stack) THEN [stack[k] EXCEPT !.i = IF ok THEN @ + 1 ELSE stack[k].len,
                                                !.ran = @ + 1]
        ELSE IF ok THEN stack[k]
        ELSE [stack[k] EXCEPT !.i = stack[k].len]]

\* The innermost for loop after one of its statements: execute_statement
\* returns (), so the loop goes on to its next statement whatever happened.
AfterStatement(stack, ok) ==
    [stack EXCEPT ![Len(stack)].i = @ + 1, ![Len(stack)].ran = @ + 1]

\* (mutant) the frame stays when a nested statement reported an error
PopUnlessError(envs, err) == IF err THEN envs ELSE Pop(envs)

\* execute_block's environments.pop()
PopEnvironment(envs, err) == Pop(envs)

\* --------------------------------------------------- interpreter inputs
\* TokenType::to_string: the operators' lexemes
TokenTypeToString(type_) ==
    CASE type_ = "Minus" -> "-"
      [] type_ = "Plus" -> "+"
      [] type_ = "Slash" -> "/"
      [] type_ = "Star" -> "*"
      [] type_ = "Bang" -> "!"
      [] type_ = "BangEqual" -> "!="
      [] type_ = "Equal" -> "="
      [] type_ = "EqualEqual" -> "=="
      [] type_ = "Greater" -> ">"
      [] type_ = "GreaterEqual" -> ">="
      [] type_ = "Less" -> "<"
      [] type_ = "LessEqual" -> "<="
      [] type_ = "LeftParen" -> "("
      [] type_ = "RightParen" -> ")"
      [] type_ = "LeftBrace" -> "{"
      [] type_ = "RightBrace" -> "}"
      [] type_ = "Comma" -> ","
      [] type_ = "Dot" -> "."
      [] type_ = "Semicolon" -> ";"
      [] OTHER -> ""

Op(type_) == Token(type_, TokenTypeToString(type_), NoneValue, 0)
Name(lexeme) == Token("Identifier", lexeme, NoneValue, 0)

Names == {"a", "b"}
Num(d) == Literal(DoubleValue(d))
Str(s) == Literal(StringValue(s))
Var(lexeme) == Variable(Name(lexeme))
Atoms == {Num(1), Str("s"), Literal(NilValue)} \cup {Var(n) : n \in Names}
Failing == Unary(Op("Minus"), Str("s"))
\* (a = 2) - "s": assigns a, then fails
Reassigning == Binary(Grouping(Assign(Name("a"), Num(2))), Op("Minus"), Str("s"))
AssignExprs ==
    {Assign(Name(n), e) : n \in Names, e \in {Num(2), Var("a")}}
        \cup {Assign(Name("a"), Assign(Name("b"), e)) : e \in {Num(2), Failing}}
UnaryExprs ==
    {Unary(Op(o), e) : o \in {"Minus", "Bang"}, e \in {Num(1), Str("s"), Var("a")}}
        \cup {Unary(Op("Bang"), Literal(NilValue))}
BinaryOps == {"Plus", "Minus", "Less", "EqualEqual"}
BinaryExprs ==
    {Binary(l, Op(o), r) : l \in {Num(1), Str("s"), Var("a"), Var("b")}, o \in BinaryOps,
                           r \in {Num(2), Str("t"), Assign(Name("a"), Num(2))}}
        \cup {Grouping(Var("a"))}
Expressions == Atoms \cup AssignExprs \cup UnaryExprs \cup BinaryExprs
Initialisers ==
    {NoExpr, Num(1), Str("s"), Var("a"), Assign(Name("b"), Num(2)), Failing}
\* every statement the claims are checked on
AllStatements ==
    {PrintStmt(e) : e \in Expressions}
        \cup {ExpressionStmt(e) : e \in Expressions}
        \cup {VarStmt(Name(n), e) : n \in Names, e \in Initialisers}
\* the statements the programs of the model are made of
SimpleStatements ==
    {VarStmt(Name("a"), NoExpr), VarStmt(Name("a"), Num(1)), VarStmt(Name("a"), Str("s")),
     VarStmt(Name("b"), Num(1)),
     ExpressionStmt(Assign(Name("a"), Num(2))),
     ExpressionStmt(Assign(Name("b"), Num(2))),
     ExpressionStmt(Binary(Var("b"), Op("Plus"), Assign(Name("a"), Num(2)))),
     VarStmt(Name("a"), Reassigning),
     PrintStmt(Var("a")), PrintStmt(Var("b"))}

\* ---------------------------------------------------------- interpreter
\* dropped: the frames the latest return of interpret dropped, kept over the
\* call of interpret that follows it
NoLast ==
    [op |-> "None", ok |-> TRUE, name |-> "", writes |-> {}, len |-> 0, ran |-> 0,
     dropped |-> <<>>]
NoCur == [err |-> FALSE, after |-> FALSE]

\* The parser's variables while the interpreter runs
ParserIdle ==
    /\ tokens = <<>>
    /\ current = 0
    /\ statements = <<>>
    /\ diagnostics = <<>>
    /\ presult = "parsing"

\* no evaluate_expression call has returned
NoOutcome == [ok |-> FALSE, value |-> NoneValue, err |-> [NoError EXCEPT !.kind = "Pending"]]

\* The evaluation's variables while another component runs
EvalIdle ==
    /\ input = NoExpr
    /\ outcome = NoOutcome
    /\ given = <<>>

\* The scanner's variables while the parser or the interpreter runs
ScannerIdle ==
    /\ source = <<>>
    /\ scanned = <<>>
    /\ start = 0
    /\ position = 0
    /\ line_no = 0
    /\ lexical = <<>>
    /\ sresult = "scanning"

Init ==
    /\ phase = "idle"
    /\ environments = <<>>
    /\ loops = <<>>
    /\ printed = <<>>
    /\ size = 0
    /\ calls = 0
    /\ planned = 0
    /\ statuses = <<>>
    /\ cur = NoCur
    /\ last = NoLast
    /\ ParserIdle
    /\ ScannerIdle
    /\ EvalIdle

\* (mutant) the frames are kept by the Interpreter from call to call
InterpretResuming(n, most) ==
    /\ phase = "idle"
    /\ calls < most
    /\ size + n <= MaxSize
    /\ phase' = "running"
    /\ environments' = IF last.dropped = <<>> THEN <<NewEnvironment>> ELSE last.dropped
    /\ loops' = <<Loop(n)>>
    /\ printed' = <<>>
    /\ size' = size + n
    /\ calls' = calls + 1
    /\ planned' = n
    /\ statuses' = <<>>
    /\ cur' = NoCur
    /\ last' = [NoLast EXCEPT !.op = "Interpret", !.dropped = last.dropped]
    /\ UNCHANGED pvars
    /\ UNCHANGED svars
    /\ UNCHANGED evars

\* Interpreter::interpret is called with n statements, as one of at most
\* most calls: one fresh frame
InterpretCall(n, most) ==
    /\ phase = "idle"
    /\ calls < most
    /\ size + n <= MaxSize
    /\ phase' = "running"
    /\ environments' = <<NewEnvironment>>
    /\ loops' = <<Loop(n)>>
    /\ printed' = <<>>
    /\ size' = size + n
    /\ calls' = calls + 1
    /\ planned' = n
    /\ statuses' = <<>>
    /\ cur' = NoCur
    /\ last' = [NoLast EXCEPT !.op = "Interpret", !.dropped = last.dropped]
    /\ UNCHANGED pvars
    /\ UNCHANGED svars
    /\ UNCHANGED evars

Interpret(n) == InterpretCall(n, MaxCalls)
InterpretAgain(n) == InterpretCall(n, MaxRepeats)

\* what a block of m statements adds to size, its own slot being counted
BlockSize(m) == IF m = 0 THEN 0 ELSE m - 1

\* a for loop has a next statement
HasNext == phase = "running" /\ Top(loops).i < Top(loops).len

\* execute_statement on a Block of m statements: execute_block pushes a frame
\* and starts its loop
ExecuteBlock(m) ==
    /\ HasNext
    /\ Len(loops) <= MaxDepth
    /\ size + BlockSize(m) <= MaxSize
    /\ environments' = Append(environments, NewEnvironment)
    /\ loops' = Append(AfterStatement(loops, TRUE), Loop(m))
    /\ printed' = <<>>
    /\ size' = size + BlockSize(m)
    /\ cur' = IF Len(loops) = 1 THEN NoCur
              ELSE [cur EXCEPT !.after = cur.after \/ cur.err]
    /\ last' = [NoLast EXCEPT !.op = "Block"]
    /\ UNCHANGED <<phase, calls, planned, statuses>>
    /\ UNCHANGED pvars
    /\ UNCHANGED svars
    /\ UNCHANGED evars

\* execute_statement on a Print, Expression or Var statement
ExecuteSimple(statement) ==
    /\ HasNext
    /\ LET r == ExecuteStatement(statement, environments)
       IN  /\ r.exact
           /\ environments' = r.environments
           /\ printed' = r.printed
           /\ loops' = AfterStatement(loops, r.ok)
           /\ statuses' =
                IF Len(loops) = 1
                THEN Append(statuses,
                            [index |-> loops[1].i + 1,
                             status |-> IF r.ok THEN "Completed" ELSE "ReportedError"])
                ELSE statuses
           /\ cur' = IF Len(loops) = 1 THEN [err |-> ~r.ok, after |-> FALSE]
                     ELSE [err |-> cur.err \/ ~r.ok, after |-> cur.after \/ cur.err]
           /\ last' = [NoLast EXCEPT !.op = statement.kind, !.ok = r.ok,
                                     !.name = IF statement.kind = "Var"
                                              THEN statement.name.lexeme ELSE "",
                                     !.writes = r.writes]
    /\ UNCHANGED <<phase, size, calls, planned>>
    /\ UNCHANGED pvars
    /\ UNCHANGED svars
    /\ UNCHANGED evars

\* execute_block's loop is over: pop the block's frame
BlockEnd ==
    /\ phase = "running"
    /\ Len(loops) > 1
    /\ Top(loops).i = Top(loops).len
    /\ environments' = PopEnvironment(environments, cur.err)
    /\ loops' = Pop(loops)
    /\ printed' = <<>>
    /\ statuses' =
         IF Len(loops) = 2
         THEN Append(statuses,
                     [index |-> loops[1].i,
                      status |-> IF cur.err THEN "ReportedError" ELSE "Completed"])
         ELSE statuses
    /\ last' = [NoLast EXCEPT !.op = "BlockEnd", !.len = Top(loops).len,
                              !.ran = Top(loops).ran]
    /\ UNCHANGED <<phase, size, calls, planned, cur>>
    /\ UNCHANGED pvars
    /\ UNCHANGED svars
    /\ UNCHANGED evars

\* interpret's loop is over: interpret returns and drops its frames
InterpretReturn ==
    /\ phase = "running"
    /\ Len(loops) = 1
    /\ Top(loops).i = Top(loops).len
    /\ phase' = "idle"
    /\ environments' = <<>>
    /\ loops' = <<>>
    /\ printed' = <<>>
    /\ last' = [NoLast EXCEPT !.op = "Return", !.len = Top(loops).len,
                              !.ran = Top(loops).ran, !.dropped = environments]
    /\ UNCHANGED <<size, calls, planned, statuses, cur>>
    /\ UNCHANGED pvars
    /\ UNCHANGED svars
    /\ UNCHANGED evars

Next ==
    \/ \E n \in 0..MaxSize : Interpret(n)
    \/ \E m \in 0..MaxBlockLen : ExecuteBlock(m)
    \/ \E statement \in SimpleStatements : ExecuteSimple(statement)
    \/ BlockEnd
    \/ InterpretReturn

Spec == Init /\ [][Next]_vars

\* interpret called again and again on one Interpreter, with statement
\* sequences that hold no block
CallsNext ==
    \/ \E n \in 0..MaxSize : InterpretAgain(n)
    \/ \E statement \in SimpleStatements : ExecuteSimple(statement)
    \/ InterpretReturn

CallsSpec == Init /\ [][CallsNext]_vars

\* ------------------------------------------------- interpreter claims
\* the frames of the chain that bind name
Binding(envs, name) == {i \in 1..Len(envs) : name \in DOMAIN envs[i].values}
SetMax(S) == CHOOSE x \in S : \A y \in S : y <= x
\* expressions that assign nothing
Pure == Atoms \cup {Unary(Op("Bang"), Var("a")), Binary(Num(1), Op("Plus"), Num(2))}
\* the value a read yields for a binding
ReadOf(option) == IF option = NoneValue THEN NilValue ELSE option

C3_EveryTopLevelStatementRuns ==
    /\ \A k \in 1..Len(statuses) : statuses[k].index = k
    /\ Len(statuses) <= planned
    /\ last.op = "Return" => Len(statuses) = planned

\* interpret has returned after a statement that reported an error and was
\* not the last one
C3_Witness ==
    /\ last.op = "Return"
    /\ \E k \in 1..(Len(statuses) - 1) : statuses[k].status = "ReportedError"

\* C4: a block pushes one frame on entry and pops it on exit, error or not:
\* the chain is 1 + the block nesting depth long, and holds the global frame
\* alone whenever no block is open.
C4_FramesFollowBlocks ==
    phase = "running" =>
        /\ Len(environments) = Len(loops)
        /\ (last.op \in {"BlockEnd", "Print", "Expression", "Var"} /\ Len(loops) = 1)
              => Len(environments) = 1

\* a top-level block in which an error was reported has ended
C4_Witness ==
    last.op = "BlockEnd" /\ cur.err /\ Len(loops) = 1 /\ Len(environments) = 1

C6_AssignWritesInnermostBinding ==
    phase = "running" =>
        \A n \in Names, e \in Pure :
            LET v == Evaluate(e, environments)
                r == Evaluate(Assign(Name(n), e), environments)
                S == Binding(environments, n)
            IN  (v.res.ok /\ v.exact /\ S # {}) =>
                    LET k == SetMax(S)
                    IN  /\ r.res = Ok(v.res.value)
                        /\ Len(r.environments) = Len(environments)
                        /\ \A i \in 1..Len(environments) :
                              i # k => r.environments[i] = environments[i]
                        /\ DOMAIN r.environments[k].values = DOMAIN environments[k].values
                        /\ \A m \in DOMAIN environments[k].values \ {n} :
                              r.environments[k].values[m] = environments[k].values[m]
                        /\ r.environments[k].values[n] = v.res.value
                        /\ Evaluate(Var(n), SubSeq(r.environments, 1, k)).res
                              = Ok(v.res.value)

\* a statement in a block has assigned to a binding of an enclosing frame
C6_Witness ==
    /\ last.ok
    /\ \E k \in last.writes : k < Len(environments)

\* C7: an Assign to a name no frame binds is an invalid-assignment error and
\* declares nothing: every frame binds the names it bound, and a read of the
\* name is an undefined-variable error.
C7_AssignNeverDeclares ==
    phase = "running" =>
        \A n \in Names, e \in Pure \cup {Assign(Name("a"), Num(2))} :
            LET v == Evaluate(e, environments)
                r == Evaluate(Assign(Name(n), e), environments)
            IN  (v.res.ok /\ v.exact /\ Binding(environments, n) = {}) =>
                    /\ r.res = Err(InvalidAssignment)
                    /\ Len(r.environments) = Len(environments)
                    /\ \A i \in 1..Len(environments) :
                          DOMAIN r.environments[i].values = DOMAIN environments[i].values
                    /\ Evaluate(Var(n), r.environments).res = Err(VariableDoesNotExist)
                    /\ ExecuteStatement(ExpressionStmt(Assign(Name(n), e)),
                                        environments).printed = <<"InvalidAssignment">>

\* an assignment to an unbound name has been reported
C7_Witness ==
    /\ last.op = "Expression" /\ ~last.ok
    /\ printed = <<"InvalidAssignment">>
    /\ \E n \in Names : Binding(environments, n) = {}

\* C8: a read yields the value of the innermost frame that binds the name
\* (nil for an uninitialized binding) and is an undefined-variable error
\* exactly when no frame binds it; a name bound only in a block's frame is
\* undefined once the block has ended.
C8_ReadSeesInnermostBinding ==
    phase = "running" =>
        \A n \in Names :
            LET r == Evaluate(Var(n), environments)
                S == Binding(environments, n)
            IN  /\ r.environments = environments
                /\ (S = {}) <=> (r.res = Err(VariableDoesNotExist))
                /\ S # {} => r.res = Ok(ReadOf(environments[SetMax(S)].values[n]))
                /\ (S = {Len(environments)} /\ Len(environments) >= 2) =>
                      Evaluate(Var(n), PopEnvironment(environments, FALSE)).res
                          = Err(VariableDoesNotExist)

\* a Print in a block has read a name that the block's frame and an enclosing
\* frame bind to different values
C8_Witness ==
    /\ last.op = "Print" /\ last.ok
    /\ Len(environments) >= 2
    /\ \E n \in DOMAIN Top(environments).values, i \in 1..(Len(environments) - 1) :
          /\ n \in DOMAIN environments[i].values
          /\ environments[i].values[n] # Top(environments).values[n]
          /\ printed = <<ValueToString(ReadOf(Top(environments).values[n]))>>
          /\ printed # <<ValueToString(ReadOf(environments[i].values[n]))>>

\* C9 as stated: when the left operand of a Binary expression evaluates to an
\* error, the right operand is not evaluated: no frame changes.
C9_ErrorSkipsRightOperand ==
    phase = "running" =>
        \A e \in BinaryExprs :
            (e.kind = "Binary" /\ ~Evaluate(e.left, environments).res.ok) =>
                Evaluate(e, environments).environments = environments

\* C10 as stated: a Print of an expression whose value is a String writes the
\* string's text, without quotes.
C10_PrintWritesRuntimeForm ==
    phase = "running" =>
        \A e \in Expressions :
            LET r == Evaluate(e, environments)
            IN  (r.res.ok /\ r.res.value.t = "String") =>
                    ExecuteStatement(PrintStmt(e), environments).printed
                        = <<r.res.value.s>>

\* --------------------------------------------------------------- parser
\* enum ParserError
ParserErrors == {"UnmatchedPrimary", "UnexpectedTokenError", "InvalidAssignment"}

\* The parser while it runs: p = [current, diagnostics].  A parsing function
\* returns [ok, value, err, p]: its Result and the parser as it leaves it.
POk(value, p) == [ok |-> TRUE, value |-> value, err |-> "None", p |-> p]
PErr(err, p) == [ok |-> FALSE, value |-> <<>>, err |-> err, p |-> p]

\* what unwrap() on a missing token stands for
PanicToken == Token("Panic", "", NoneValue, 0)
\* tokens.iter().nth(i - 1) is None: unwrap() panics
Missing(toks, i) == i \notin 1..Len(toks)
\* Parser::new, and the parser with current and the diagnostics written so
\* far; panicked records that an unwrap() of peek or previous has panicked
ParserAt(index, written) == [current |-> index, diagnostics |-> written, panicked |-> FALSE]
NewParser == ParserAt(0, <<>>)

\* Parser::peek
peek(toks, p) ==
    IF p.current + 1 \in 1..Len(toks) THEN toks[p.current + 1] ELSE PanicToken

\* Parser::previous
previous(toks, p) ==
    IF p.current \in 1..Len(toks) THEN toks[p.current] ELSE PanicToken

\* Parser::is_at_end
is_at_end(toks, p) == peek(toks, p).type_ = "Eof"

\* Parser::check
check(toks, p, type_) ==
    IF is_at_end(toks, p) THEN FALSE ELSE peek(toks, p).type_ = type_

\* (mutant) advance without the is_at_end test
AdvanceUnchecked(toks, p) ==
    LET q == [p EXCEPT !.current = @ + 1]
    IN  [q EXCEPT !.panicked = @ \/ Missing(toks, p.current + 1)
                                  \/ Missing(toks, q.current)]

\* Parser::advance, the parser after it (the token returned is previous);
\* its peek and its previous panic on a missing token
advance(toks, p) ==
    LET q == IF ~is_at_end(toks, p) THEN [p EXCEPT !.current = @ + 1] ELSE p
    IN  [q EXCEPT !.panicked = @ \/ Missing(toks, p.current + 1)
                                  \/ Missing(toks, q.current)]

\* Parser::match_: [matched, p]
match_(toks, p, types) ==
    IF \E type_ \in types : check(toks, p, type_)
    THEN [matched |-> TRUE, p |-> advance(toks, p)]
    ELSE [matched |-> FALSE, p |-> p]

\* token_error with error::report: the line written, and the index of the
\* token it cites (history)
token_error(toks, p, message) ==
    LET token == peek(toks, p)
        where_ == IF token.type_ = "Eof" THEN " at end"
                  ELSE " at '" \o token.lexeme \o "'"
    IN  [text |-> "[line " \o ToString(token.line) \o "] Error " \o where_
                    \o ": " \o message,
         at |-> p.current + 1]

\* (mutant) a missing token is reported and then ignored by the caller
ConsumeReportsOnly(toks, p, type_, message) ==
    IF check(toks, p, type_)
    THEN POk(previous(toks, advance(toks, p)), advance(toks, p))
    ELSE POk(peek(toks, p),
             [p EXCEPT !.diagnostics = Append(@, token_error(toks, p, message))])

\* Parser::consume with Parser::error
consume(toks, p, type_, message) ==
    IF check(toks, p, type_)
    THEN POk(previous(toks, advance(toks, p)), advance(toks, p))
    ELSE PErr("UnexpectedTokenError",
              [p EXCEPT !.diagnostics = Append(@, token_error(toks, p, message))])

\* result_map2: a.and_then(|a| b.map(|b| op(a, b))); b was computed after a
\* and holds the parser
result_map2(a, b, value) ==
    IF ~a.ok THEN PErr(a.err, b.p)
    ELSE IF ~b.ok THEN PErr(b.err, b.p)
    ELSE POk(value, b.p)

\* result_map3
result_map3(a, b, c, value) ==
    IF ~a.ok THEN PErr(a.err, c.p)
    ELSE IF ~b.ok THEN PErr(b.err, c.p)
    ELSE IF ~c.ok THEN PErr(c.err, c.p)
    ELSE POk(value, c.p)

\* (mutant) addition and multiplication match each other's operators
SwappedLevelOps(level) ==
    CASE level = 1 -> {"BangEqual", "EqualEqual"}
      [] level = 2 -> {"Greater", "GreaterEqual", "Less", "LessEqual"}
      [] level = 3 -> {"Slash", "Star"}
      [] level = 4 -> {"Minus", "Plus"}

\* the operators of the binary levels: equality, comparison, addition,
\* multiplication
LevelOps(level) ==
    CASE level = 1 -> {"BangEqual", "EqualEqual"}
      [] level = 2 -> {"Greater", "GreaterEqual", "Less", "LessEqual"}
      [] level = 3 -> {"Minus", "Plus"}
      [] level = 4 -> {"Slash", "Star"}

\* v, evaluated once, handed to F (a LET definition is evaluated at each use)
With(v, F(_)) == CHOOSE r \in {F(x) : x \in {v}} : TRUE

RECURSIVE declaration(_, _), statement(_, _), BlockLoop(_, _, _), expression(_, _),
          assignment(_, _), BinaryLevel(_, _, _), BinaryLoop(_, _, _), unary(_, _),
          primary(_, _)

\* Parser::primary
primary(toks, p) ==
    LET type_ == peek(toks, p).type_
        m == match_(toks, p, {type_})
    IN  IF is_at_end(toks, p) THEN PErr("UnmatchedPrimary", p)
        ELSE CASE type_ = "False" -> POk(Literal(BoolValue(FALSE)), m.p)
          [] type_ = "True" -> POk(Literal(BoolValue(TRUE)), m.p)
          [] type_ = "Nil" -> POk(Literal(NilValue), m.p)
          [] type_ \in {"Number", "String"} ->
                POk(Literal(previous(toks, m.p).literal), m.p)
          [] type_ = "Identifier" -> POk(Variable(previous(toks, m.p)), m.p)
          [] type_ = "LeftParen" ->
                With(expression(toks, m.p), LAMBDA expr :
                    With(consume(toks, expr.p, "RightParen",
                                 "Expect ')' after expression"), LAMBDA result :
                        result_map2(expr, result, Grouping(expr.value))))
          [] OTHER -> PErr("UnmatchedPrimary", p)

\* Parser::unary
unary(toks, p) ==
    LET m == match_(toks, p, {"Bang", "Minus"})
    IN  IF m.matched
        THEN With(unary(toks, m.p), LAMBDA right :
                 IF right.ok
                 THEN POk(Unary(previous(toks, m.p), right.value), right.p)
                 ELSE right)
        ELSE primary(toks, p)

\* (mutant) the right operand is parsed at the operator's own level
BinaryLoopRight(toks, expr, level) ==
    LET m == match_(toks, expr.p, LevelOps(level))
    IN  IF m.matched
        THEN With(BinaryLevel(toks, m.p, level), LAMBDA right :
                 result_map2(expr, right,
                             Binary(expr.value, previous(toks, m.p), right.value)))
        ELSE expr

\* the while loop of equality, comparison, addition and multiplication: expr
\* is the Result so far, with the parser
BinaryLoop(toks, expr, level) ==
    LET m == match_(toks, expr.p, LevelOps(level))
    IN  IF m.matched
        THEN With(IF level = 4 THEN unary(toks, m.p)
                  ELSE BinaryLevel(toks, m.p, level + 1), LAMBDA right :
                 With(result_map2(expr, right,
                                  Binary(expr.value, previous(toks, m.p), right.value)),
                      LAMBDA folded : BinaryLoop(toks, folded, level)))
        ELSE expr

\* Parser::equality (1), comparison (2), addition (3), multiplication (4)
BinaryLevel(toks, p, level) ==
    With(IF level = 4 THEN unary(toks, p) ELSE BinaryLevel(toks, p, level + 1),
         LAMBDA expr : BinaryLoop(toks, expr, level))
equality(toks, p) == BinaryLevel(toks, p, 1)

\* (mutant) a parenthesized variable is an assignment target too
AssignmentThroughGrouping(toks, p) ==
    With(equality(toks, p), LAMBDA expr :
        LET m == match_(toks, expr.p, {"Equal"})
            target == IF expr.ok /\ expr.value.kind = "Grouping" THEN expr.value.expr
                      ELSE expr.value
        IN  IF m.matched
            THEN With(assignment(toks, m.p), LAMBDA value :
                     IF expr.ok /\ target.kind = "Variable"
                     THEN IF value.ok
                          THEN POk(Assign(target.name, value.value), value.p)
                          ELSE value
                     ELSE IF expr.ok THEN PErr("InvalidAssignment", value.p)
                     ELSE PErr(expr.err, value.p))
            ELSE expr)

\* (mutant) the assigned value is an equality, so a second = is left over
AssignmentOnce(toks, p) ==
    With(equality(toks, p), LAMBDA expr :
        LET m == match_(toks, expr.p, {"Equal"})
        IN  IF m.matched
            THEN With(equality(toks, m.p), LAMBDA value :
                     IF expr.ok /\ expr.value.kind = "Variable"
                     THEN IF value.ok
                          THEN POk(Assign(expr.value.name, value.value), value.p)
                          ELSE value
                     ELSE IF expr.ok THEN PErr("InvalidAssignment", value.p)
                     ELSE PErr(expr.err, value.p))
            ELSE expr)

\* Parser::assignment
assignment(toks, p) ==
    With(equality(toks, p), LAMBDA expr :
        LET m == match_(toks, expr.p, {"Equal"})
        IN  IF m.matched
            THEN With(assignment(toks, m.p), LAMBDA value :
                     IF expr.ok /\ expr.value.kind = "Variable"
                     THEN IF value.ok
                          THEN POk(Assign(expr.value.name, value.value), value.p)
                          ELSE value
                     ELSE IF expr.ok THEN PErr("InvalidAssignment", value.p)
                     ELSE PErr(expr.err, value.p))
            ELSE expr)

\* Parser::expression
expression(toks, p) == assignment(toks, p)

\* Parser::expression_statement
expression_statement(toks, p) ==
    With(expression(toks, p), LAMBDA value :
        With(consume(toks, value.p, "Semicolon", "Expect ';' after value"),
             LAMBDA result : result_map2(value, result, ExpressionStmt(value.value))))

\* Parser::print_statement
print_statement(toks, p) ==
    With(expression(toks, p), LAMBDA value :
        With(consume(toks, value.p, "Semicolon", "Expect ';' after value"),
             LAMBDA result : result_map2(value, result, PrintStmt(value.value))))

\* Parser::block, its while loop: stmts are the statements so far
BlockLoop(toks, p, stmts) ==
    IF p.panicked \/ Missing(toks, p.current + 1)
    THEN PErr("Panicked", [p EXCEPT !.panicked = TRUE])
    ELSE IF ~check(toks, p, "RightBrace") /\ ~is_at_end(toks, p)
    THEN With(declaration(toks, p), LAMBDA d :
             IF d.ok THEN BlockLoop(toks, d.p, Append(stmts, d.value)) ELSE d)
    ELSE With(consume(toks, p, "RightBrace", "Expect '}' after block"),
              LAMBDA result : IF result.ok THEN POk(stmts, result.p) ELSE result)

\* Parser::block
block(toks, p) == BlockLoop(toks, p, <<>>)

\* Parser::statement
statement(toks, p) ==
    LET m == match_(toks, p, {"Print"})
        b == match_(toks, p, {"LeftBrace"})
    IN  IF m.matched THEN print_statement(toks, m.p)
        ELSE IF b.matched
        THEN With(block(toks, b.p), LAMBDA stmts :
                 IF stmts.ok THEN POk(BlockStmt(stmts.value), stmts.p) ELSE stmts)
        ELSE expression_statement(toks, p)

\* Parser::var_declaration
var_declaration(toks, p) ==
    With(consume(toks, p, "Identifier", "Expect variable name"), LAMBDA name :
        LET m == match_(toks, name.p, {"Equal"})
        IN  With(IF m.matched THEN expression(toks, m.p) ELSE POk(NoExpr, m.p),
                 LAMBDA initializer :
                With(consume(toks, initializer.p, "Semicolon",
                             "Expect ';' after variable declaration"),
                     LAMBDA consume_result :
                    result_map3(name, initializer, consume_result,
                                VarStmt(name.value, initializer.value)))))

\* Parser::synchronize, its while loop
RECURSIVE SynchronizeLoop(_, _)
SynchronizeLoop(toks, p) ==
    IF p.panicked \/ Missing(toks, p.current + 1) THEN [p EXCEPT !.panicked = TRUE]
    ELSE IF is_at_end(toks, p) THEN p
    ELSE IF Missing(toks, p.current) THEN [p EXCEPT !.panicked = TRUE]
    ELSE IF previous(toks, p).type_ = "Semicolon" THEN p
    ELSE IF peek(toks, p).type_ \in {"Class", "Fun", "Var", "For", "If", "While",
                                     "Print", "Return"} THEN p
    ELSE SynchronizeLoop(toks, advance(toks, p))

\* Parser::synchronize
synchronize(toks, p) == SynchronizeLoop(toks, advance(toks, p))

\* Parser::declaration
declaration(toks, p) ==
    LET m == match_(toks, p, {"Var"})
    IN  With(IF m.matched THEN var_declaration(toks, m.p) ELSE statement(toks, p),
             LAMBDA result :
                IF result.ok THEN result
                ELSE [result EXCEPT !.p = synchronize(toks, result.p)])

\* what parse's loop does with a declaration: go on, or return Err(err),
\* unless the declaration has panicked
ParseOutcome(d) ==
    IF d.p.panicked THEN "Panicked" ELSE IF d.ok THEN "parsing" ELSE d.err

\* (mutant) the test of parse's loop made after the first turn only
ParseAtLeastOnce(toks, p) == p.current = 0 \/ ~is_at_end(toks, p)

\* Parser::parse, the test of its while loop
ParseContinues(toks, p) == ~is_at_end(toks, p)

\* Parser::parse, its while loop: [result, statements, p]
RECURSIVE ParseLoop(_, _, _)
ParseLoop(toks, p, stmts) ==
    IF ParseContinues(toks, p)
    THEN With(declaration(toks, p), LAMBDA d :
             IF ParseOutcome(d) = "parsing"
             THEN ParseLoop(toks, d.p, Append(stmts, d.value))
             ELSE [result |-> ParseOutcome(d), statements |-> stmts, p |-> d.p])
    ELSE [result |-> "Ok", statements |-> stmts, p |-> p]

\* Parser::new, then Parser::parse
parse(toks) == ParseLoop(toks, NewParser, <<>>)

\* -------------------------------------------------------- parser inputs
\* The token sequences are what the scanner yields for sources made of
\* statement fragments, one per line: the tokens of the fragments, each with
\* the line of its fragment (from 0), and the Eof token.
Tk(type_) == [type_ |-> type_, lexeme |-> TokenTypeToString(type_), literal |-> NoneValue]
Kw(type_, lexeme) == [type_ |-> type_, lexeme |-> lexeme, literal |-> NoneValue]
Id(lexeme) == [type_ |-> "Identifier", lexeme |-> lexeme, literal |-> NoneValue]
Nm(d) == [type_ |-> "Number", lexeme |-> ToString(d), literal |-> DoubleValue(d)]

Fragments ==
    {<<Kw("Print", "print"), Nm(1), Tk("Semicolon")>>,
     <<Kw("Print", "print"), Tk("LeftParen"), Nm(1), Tk("Semicolon")>>,
     <<Kw("Print", "print"), Tk("Semicolon")>>,
     <<Kw("Print", "print"), Nm(1)>>,
     <<Kw("Var", "var"), Id("a"), Tk("Equal"), Nm(1), Tk("Semicolon")>>,
     <<Kw("Var", "var"), Tk("Equal"), Nm(1), Tk("Semicolon")>>,
     <<Id("a"), Tk("Equal"), Nm(2), Tk("Semicolon")>>,
     <<Nm(1), Tk("Equal"), Nm(2), Tk("Semicolon")>>,
     <<Tk("LeftBrace")>>,
     <<Tk("RightBrace")>>}

RECURSIVE Lines(_, _)
Lines(frags, k) ==
    IF k > Len(frags) THEN <<>>
    ELSE [i \in 1..Len(frags[k]) |->
             Token(frags[k][i].type_, frags[k][i].lexeme, frags[k][i].literal, k - 1)]
         \o Lines(frags, k + 1)

\* Scanner::scan_tokens on the source with these lines
Source(frags) ==
    Lines(frags, 1)
        \o <<Token("Eof", "", NoneValue, IF Len(frags) = 0 THEN 0 ELSE Len(frags) - 1)>>

FragmentSeqs == UNION {[1..n -> Fragments] : n \in 0..MaxFragments}
TokenSeqs == {Source(frags) : frags \in FragmentSeqs}

\* --------------------------------------------------------- parser steps
\* The interpreter's variables while the parser runs
InterpreterIdle ==
    /\ phase = "idle"
    /\ environments = <<>>
    /\ loops = <<>>
    /\ printed = <<>>
    /\ size = 0
    /\ calls = 0
    /\ planned = 0
    /\ statuses = <<>>
    /\ cur = NoCur
    /\ last = NoLast
    /\ EvalIdle

\* Parser::new(tokens)
\* Parser::new on one of the token sequences seqs
ParserStart(seqs) ==
    /\ tokens \in seqs
    /\ current = 0
    /\ statements = <<>>
    /\ diagnostics = <<>>
    /\ presult = "parsing"
    /\ InterpreterIdle
    /\ ScannerIdle

\* parse, one turn of its loop: a declaration is pushed, or its error returned
ParseDeclaration ==
    /\ presult = "parsing"
    /\ ParseContinues(tokens, ParserAt(current, diagnostics))
    /\ \E d \in {declaration(tokens, ParserAt(current, diagnostics))} :
           /\ current' = d.p.current
           /\ diagnostics' = d.p.diagnostics
           /\ statements' = IF d.ok THEN Append(statements, d.value) ELSE statements
           /\ presult' = ParseOutcome(d)
    /\ UNCHANGED <<tokens>>
    /\ UNCHANGED ivars
    /\ UNCHANGED svars
    /\ UNCHANGED evars

\* parse, the end of its loop: Ok(statements)
ParseReturn ==
    /\ presult = "parsing"
    /\ ~ParseContinues(tokens, ParserAt(current, diagnostics))
    /\ presult' = "Ok"
    /\ UNCHANGED <<tokens, current, statements, diagnostics>>
    /\ UNCHANGED ivars
    /\ UNCHANGED svars
    /\ UNCHANGED evars

ParserInit == ParserStart(TokenSeqs)

ParserNext == ParseDeclaration \/ ParseReturn

ParserSpec == ParserInit /\ [][ParserNext]_vars

\* the token sequences of up to MaxLiveFragments lines
ParserLiveInit ==
    ParserStart({Source(frags) :
                    frags \in UNION {[1..n -> Fragments] : n \in 0..MaxLiveFragments}})

\* parse is one sequential loop: a turn that can be taken is taken
ParserLiveSpec == ParserLiveInit /\ [][ParserNext]_vars /\ WF_vars(ParserNext)

\* -------------------------------------------------------- parser claims
\* the fragments that end a statement with ';' and draw a diagnostic when
\* they are parsed alone
Malformed ==
    {f \in Fragments :
        /\ f[Len(f)].type_ = "Semicolon"
        /\ parse(Source(<<f>>)).p.diagnostics # <<>>}

\* C2 as stated: for two malformed statements separated by a statement
\* boundary, parse reports a diagnostic for each: one cites a token of the
\* first statement and one a token of the second.
C2_EveryMalformedStatementReported ==
    \A f \in Malformed, g \in Malformed :
        (presult # "parsing" /\ tokens = Source(<<f, g>>)) =>
            /\ \E k \in 1..Len(diagnostics) : diagnostics[k].at \in 1..Len(f)
            /\ \E k \in 1..Len(diagnostics) :
                  diagnostics[k].at \in (Len(f) + 1)..(Len(f) + Len(g))

\* ============================================================ scanner.rs
\* A scanner state is [tokens, start, current, line, lexical]: the fields of
\* Scanner that scanning changes, and the lines line_error has written.  The
\* source is a sequence of one-character strings, all ASCII, so that
\* source.len() is its number of characters.
MaxSource == 4

\* what chars().nth() yields through unwrap_or('\0') past the end
NUL == "NUL"

Digits == {"0", "1", "2", "3", "4", "5", "6", "7", "8", "9"}
Letters ==
    {"a", "b", "c", "d", "e", "f", "g", "h", "i", "j", "k", "l", "m", "n", "o", "p", "q",
     "r", "s", "t", "u", "v", "w", "x", "y", "z", "A", "B", "C", "D", "E", "F", "G", "H",
     "I", "J", "K", "L", "M", "N", "O", "P", "Q", "R", "S", "T", "U", "V", "W", "X", "Y",
     "Z", "_"}

\* Scanner::is_digit, is_alpha, is_alpha_numeric
is_digit(c) == c \in Digits
is_alpha(c) == c \in Letters
is_alpha_numeric(c) == is_alpha(c) \/ is_digit(c)

\* the String collected from a sequence of chars
RECURSIVE Collect(_)
Collect(chars) == IF chars = <<>> THEN "" ELSE Head(chars) \o Collect(Tail(chars))

\* source.chars().skip(from).take(len)
SkipTake(src, from, len) == SubSeq(src, from + 1, from + len)

\* Scanner::new: the keywords
Keywords ==
    [and |-> "And", class |-> "Class", else |-> "Else", false |-> "False", for |-> "For",
     fun |-> "Fun", if |-> "If", nil |-> "Nil", or |-> "Or", print |-> "Print",
     return |-> "Return", super |-> "Super", this |-> "This", true |-> "True",
     var |-> "Var", while |-> "While"]

\* Scanner::new
NewScanner == [tokens |-> <<>>, start |-> 0, current |-> 0, line |-> 0, lexical |-> <<>>]

\* line_error: the line written, with the scanner's start and token count
\* at that moment (history)
line_error(s, message) ==
    [s EXCEPT !.lexical = Append(@, [line |-> s.line, message |-> message,
                                     at |-> s.start, count |-> Len(s.tokens)])]

\* Scanner::is_at_end
scanner_is_at_end(src, s) == s.current = Len(src)

\* Scanner::peek
scanner_peek(src, s) == IF scanner_is_at_end(src, s) THEN NUL ELSE src[s.current + 1]

\* Scanner::peek_next
peek_next(src, s) == IF s.current + 1 >= Len(src) THEN NUL ELSE src[s.current + 2]

\* Scanner::advance: the scanner after it; the char it returns is Advanced
scanner_advance(src, s) == [s EXCEPT !.current = @ + 1]
Advanced(src, s) == IF s.current < Len(src) THEN src[s.current + 1] ELSE " "

\* Scanner::match_: the scanner after it; it returns Matches
Matches(src, s, c) == ~scanner_is_at_end(src, s) /\ src[s.current + 1] = c
scanner_match_(src, s, c) == IF Matches(src, s, c) THEN [s EXCEPT !.current = @ + 1] ELSE s

\* Scanner::add_token_value
add_token_value(src, s, type_, value) ==
    [s EXCEPT !.tokens =
        Append(@, Token(type_, Collect(SkipTake(src, s.start, s.current - s.start)),
                        value, s.line))]

\* Scanner::add_token
add_token(src, s, type_) == add_token_value(src, s, type_, NoneValue)

\* Scanner::string, its while loop
RECURSIVE StringLoop(_, _)
StringLoop(src, s) ==
    IF scanner_peek(src, s) # "\"" /\ ~scanner_is_at_end(src, s)
    THEN StringLoop(src, [s EXCEPT !.line = IF scanner_peek(src, s) = "\n" THEN @ + 1 ELSE @,
                                   !.current = @ + 1])
    ELSE s

\* Scanner::string, the unterminated string: reported, no token
Unterminated(src, s) == line_error(s, "Unterminated string.")

\* Scanner::string
string(src, s) ==
    LET t == StringLoop(src, s)
        u == scanner_advance(src, t)
    IN  IF scanner_is_at_end(src, t) THEN Unterminated(src, t)
        ELSE add_token_value(src, u, "String",
                 StringValue(Collect(SkipTake(src, u.start + 1, u.current - u.start - 2))))

\* the while loops of number
RECURSIVE DigitsLoop(_, _)
DigitsLoop(src, s) ==
    IF is_digit(scanner_peek(src, s)) THEN DigitsLoop(src, scanner_advance(src, s)) ELSE s

\* the value of a digit and of a run of digits
DigitValue(c) == CHOOSE d \in 0..9 : ToString(d) = c
RECURSIVE Decimal(_)
Decimal(chars) ==
    IF chars = <<>> THEN 0
    ELSE 10 * Decimal(SubSeq(chars, 1, Len(chars) - 1)) + DigitValue(chars[Len(chars)])

\* a fraction's digits without its trailing zeros
RECURSIVE Significant(_)
Significant(chars) ==
    IF chars # <<>> /\ chars[Len(chars)] = "0"
    THEN Significant(SubSeq(chars, 1, Len(chars) - 1))
    ELSE chars

\* text.parse::<f64>() on digits with an optional fraction: the integer part
\* is the Double's d; a fraction that is not zero is kept as its digits in s
ParseF64(chars) ==
    LET dot == {i \in 1..Len(chars) : chars[i] = "."}
        k == IF dot = {} THEN Len(chars) + 1 ELSE CHOOSE i \in dot : TRUE
    IN  [DoubleValue(Decimal(SubSeq(chars, 1, k - 1))) EXCEPT
            !.s = Collect(Significant(SubSeq(chars, k + 1, Len(chars))))]

\* Scanner::number
number(src, s) ==
    LET t == DigitsLoop(src, s)
        u == IF scanner_peek(src, t) = "." /\ is_digit(peek_next(src, t))
             THEN DigitsLoop(src, scanner_advance(src, t))
             ELSE t
    IN  add_token_value(src, u, "Number",
                        ParseF64(SkipTake(src, u.start, u.current - u.start)))

\* Scanner::identifier, its while loop
RECURSIVE AlphaNumericLoop(_, _)
AlphaNumericLoop(src, s) ==
    IF is_alpha_numeric(scanner_peek(src, s))
    THEN AlphaNumericLoop(src, scanner_advance(src, s))
    ELSE s

\* Scanner::identifier
identifier(src, s) ==
    LET t == AlphaNumericLoop(src, s)
        text == Collect(SkipTake(src, t.start, t.current - t.start))
    IN  add_token(src, t, IF text \in DOMAIN Keywords THEN Keywords[text] ELSE "Identifier")

\* scan_token on "//": the comment goes to the end of the line
RECURSIVE CommentLoop(_, _)
CommentLoop(src, s) ==
    IF scanner_peek(src, s) # "\n" /\ ~scanner_is_at_end(src, s)
    THEN CommentLoop(src, scanner_advance(src, s))
    ELSE s

\* (mutant) an unexpected character ends the scan
AbortScan(src, s) ==
    [line_error(s, "Unexpected character") EXCEPT !.current = Len(src)]

\* scan_token, the default arm's last case: reported, no token
UnexpectedCharacter(src, s) == line_error(s, "Unexpected character")

\* the token types of the characters that are a token whatever follows
SingleCharacter(c) ==
    CASE c = "(" -> "LeftParen"
      [] c = ")" -> "RightParen"
      [] c = "{" -> "LeftBrace"
      [] c = "}" -> "RightBrace"
      [] c = "," -> "Comma"
      [] c = "." -> "Dot"
      [] c = "-" -> "Minus"
      [] c = "+" -> "Plus"
      [] c = ";" -> "Semicolon"
      [] c = "*" -> "Star"
      [] OTHER -> "None"

\* scan_tokens sets start, then Scanner::scan_token
scan_token(src, s0) ==
    LET c == Advanced(src, s0)
        s == scanner_advance(src, [s0 EXCEPT !.start = s0.current])
        m == scanner_match_(src, s, "=")
    IN  CASE SingleCharacter(c) # "None" -> add_token(src, s, SingleCharacter(c))
          [] c = "!" -> add_token(src, m, IF Matches(src, s, "=") THEN "BangEqual" ELSE "Bang")
          [] c = "=" -> add_token(src, m, IF Matches(src, s, "=") THEN "EqualEqual" ELSE "Equal")
          [] c = "<" -> add_token(src, m, IF Matches(src, s, "=") THEN "LessEqual" ELSE "Less")
          [] c = ">" -> add_token(src, m,
                                  IF Matches(src, s, "=") THEN "GreaterEqual" ELSE "Greater")
          [] c = "/" -> IF Matches(src, s, "/")
                        THEN CommentLoop(src, scanner_match_(src, s, "/"))
                        ELSE add_token(src, s, "Slash")
          [] c = "\"" -> string(src, s)
          [] c \in {" ", "\r", "\t"} -> s
          [] c = "\n" -> [s EXCEPT !.line = @ + 1]
          [] OTHER -> IF is_digit(c) THEN number(src, s)
                      ELSE IF is_alpha(c) THEN identifier(src, s)
                      ELSE UnexpectedCharacter(src, s)

\* (mutant) no Eof token after a lexical error
EofUnlessError(s) ==
    IF s.lexical = <<>> THEN [s EXCEPT !.tokens = Append(@, Token("Eof", "", NoneValue, s.line))]
    ELSE s

\* scan_tokens, after its loop: the Eof token
PushEof(s) == [s EXCEPT !.tokens = Append(@, Token("Eof", "", NoneValue, s.line))]

\* Scanner::scan_tokens on a new Scanner
RECURSIVE ScanLoop(_, _)
ScanLoop(src, s) ==
    IF ~scanner_is_at_end(src, s)
    THEN With(scan_token(src, s), LAMBDA t : ScanLoop(src, t))
    ELSE PushEof(s)
scan_tokens(src) == ScanLoop(src, NewScanner)

\* -------------------------------------------------------- scanner inputs
Characters == {"1", "a", "\"", "@", "\n", "/", "="}
Sources == UNION {[1..n -> Characters] : n \in 0..MaxSource}

\* --------------------------------------------------------- scanner steps
\* the Scanner of the state
ScannerState ==
    [tokens |-> scanned, start |-> start, current |-> position, line |-> line_no,
     lexical |-> lexical]

\* Scanner::new(source)
ScannerInit ==
    /\ source \in Sources
    /\ scanned = <<>>
    /\ start = 0
    /\ position = 0
    /\ line_no = 0
    /\ lexical = <<>>
    /\ sresult = "scanning"
    /\ InterpreterIdle
    /\ ParserIdle

\* scan_tokens, one turn of its loop
ScanToken ==
    /\ sresult = "scanning"
    /\ ~scanner_is_at_end(source, ScannerState)
    /\ \E t \in {scan_token(source, ScannerState)} :
           /\ scanned' = t.tokens
           /\ start' = t.start
           /\ position' = t.current
           /\ line_no' = t.line
           /\ lexical' = t.lexical
    /\ UNCHANGED <<source, sresult>>
    /\ UNCHANGED ivars
    /\ UNCHANGED pvars
    /\ UNCHANGED evars

\* scan_tokens, the end of its loop: Eof is pushed and the tokens returned
ScanReturn ==
    /\ sresult = "scanning"
    /\ scanner_is_at_end(source, ScannerState)
    /\ scanned' = PushEof(ScannerState).tokens
    /\ sresult' = "returned"
    /\ UNCHANGED <<source, start, position, line_no, lexical>>
    /\ UNCHANGED ivars
    /\ UNCHANGED pvars
    /\ UNCHANGED evars

ScannerNext == ScanToken \/ ScanReturn

ScannerSpec == ScannerInit /\ [][ScannerNext]_vars

\* -------------------------------------------------------- scanner claims
\* C11: every token sequence scan_tokens returns holds exactly one Eof token,
\* and it is the last element.
C11_ExactlyOneEofLast ==
    sresult = "returned" =>
        /\ Len(scanned) >= 1
        /\ \A k \in 1..Len(scanned) : scanned[k].type_ = "Eof" <=> k = Len(scanned)
        /\ scan_tokens(source).tokens = scanned

C11_Witness ==
    /\ sresult = "returned"
    /\ Len(scanned) >= 3
    /\ lexical # <<>>

\* the source with the character at 0-based index i replaced by a space
Blanked(src, i) == [src EXCEPT ![i + 1] = " "]

\* C18: a lexical error never aborts scanning and never yields a token for
\* the faulty span.  An unexpected character consumes itself alone and adds
\* no token, and the tokens returned are those of the source with that
\* character blanked; an unterminated string adds no token and consumes the
\* input to its end, and the tokens returned are those before it and Eof.
C18_LexicalErrorYieldsNoToken ==
    \A k \in 1..Len(lexical) :
        LET e == lexical[k]
        IN  /\ Len(scanned) >= e.count
            /\ (k = Len(lexical) /\ start = e.at /\ sresult = "scanning") =>
                  /\ Len(scanned) = e.count
                  /\ e.message = "Unexpected character" => position = e.at + 1
                  /\ e.message = "Unterminated string." => position = Len(source)
            /\ (sresult = "returned" /\ e.message = "Unexpected character") =>
                  scanned = scan_tokens(Blanked(source, e.at)).tokens
            /\ (sresult = "returned" /\ e.message = "Unterminated string.") =>
                  /\ Len(scanned) = e.count + 1
                  /\ scanned[Len(scanned)].type_ = "Eof"
                  /\ \A j \in 1..Len(scanned) :
                        scanned[j].type_ = "String" => j <= e.count

C18_Witness ==
    /\ sresult = "returned"
    /\ \E k \in 1..Len(lexical) : lexical[k].message = "Unexpected character"
    /\ \E k \in 1..Len(lexical) : lexical[k].message = "Unterminated string."
    /\ Len(scanned) >= 2

\* ------------------------------------------- parser claims, continued
\* Only consume writes a diagnostic (Parser::error has no other caller), so
\* consume has failed during the parse exactly when diagnostics is not empty.

\* C12: whenever consume fails for a required token during a parse, parse
\* returns an error: it never goes on parsing and never returns Ok, and the
\* declaration the token was missing from is not among the statements.
C12_MissingTokenIsAnError ==
    diagnostics # <<>> =>
        /\ presult \in ParserErrors
        /\ parse(tokens).result = presult
        /\ parse(tokens).statements = statements

C12_Witness ==
    /\ presult = "UnexpectedTokenError"
    /\ Len(statements) >= 1
    /\ \E k \in 1..Len(diagnostics) : tokens[diagnostics[k].at].type_ = "Eof"

\* C13 as stated: whenever parse returns an error of any kind, at least one
\* diagnostic has been emitted during that parse.
C13_EverySyntaxErrorReported ==
    presult \in ParserErrors => diagnostics # <<>>

\* ---------------------------------------------------- expression inputs
\* One expression statement on line 0: the tokens of the items, ';' and Eof.
ExpressionTokens(items) == Source(<<items \o <<Tk("Semicolon")>> >>)

BinaryTypes == UNION {LevelOps(level) : level \in 1..4}
UnaryTypes == {"Bang", "Minus"}

\* a op1 b op2 c
Flat(op1, op2) == ExpressionTokens(<<Id("a"), Tk(op1), Id("b"), Tk(op2), Id("c")>>)
\* ( a op1 b ) op2 c
Grouped(op1, op2) ==
    ExpressionTokens(<<Tk("LeftParen"), Id("a"), Tk(op1), Id("b"), Tk("RightParen"),
                       Tk(op2), Id("c")>>)
\* u a op b
Prefixed(u, op) == ExpressionTokens(<<Tk(u), Id("a"), Tk(op), Id("b")>>)
\* a = b op c
Assigned(op) == ExpressionTokens(<<Id("a"), Tk("Equal"), Id("b"), Tk(op), Id("c")>>)
\* 8 - 4 - 2
EightFourTwo == ExpressionTokens(<<Nm(8), Tk("Minus"), Nm(4), Tk("Minus"), Nm(2)>>)

\* left sides followed by '=': a, 1, "s", a + b, a == b, - a, ! a, ( a )
Targets ==
    {<<Id("a")>>, <<Nm(1)>>,
     <<[type_ |-> "String", lexeme |-> "\"s\"", literal |-> StringValue("s")]>>,
     <<Id("a"), Tk("Plus"), Id("b")>>, <<Id("a"), Tk("EqualEqual"), Id("b")>>,
     <<Tk("Minus"), Id("a")>>, <<Tk("Bang"), Id("a")>>,
     <<Tk("LeftParen"), Id("a"), Tk("RightParen")>>}
\* the right sides: 1, and nothing
Assignments ==
    {ExpressionTokens(t \o <<Tk("Equal")>> \o v) : t \in Targets, v \in {<<Nm(1)>>, <<>>}}

ExpressionSources ==
    {Flat(op1, op2) : op1 \in BinaryTypes, op2 \in BinaryTypes}
        \cup {Grouped(op1, op2) : op1 \in BinaryTypes, op2 \in BinaryTypes}
        \cup {Prefixed(u, op) : u \in UnaryTypes, op \in BinaryTypes}
        \cup {Assigned(op) : op \in BinaryTypes}
        \cup {EightFourTwo}
        \cup Assignments

\* Parser::new(tokens) on the tokens of an expression statement
ExpressionInit ==
    /\ tokens \in ExpressionSources
    /\ current = 0
    /\ statements = <<>>
    /\ diagnostics = <<>>
    /\ presult = "parsing"
    /\ InterpreterIdle
    /\ ScannerIdle

ExpressionSpec == ExpressionInit /\ [][ParserNext]_vars

\* ------------------------------------------------- expression claims
\* the level of a binary operator in the claimed cascade: equality,
\* comparison, additive, multiplicative
Tightness(op) ==
    CASE op \in {"BangEqual", "EqualEqual"} -> 1
      [] op \in {"Greater", "GreaterEqual", "Less", "LessEqual"} -> 2
      [] op \in {"Minus", "Plus"} -> 3
      [] op \in {"Slash", "Star"} -> 4

\* the declaration of the source has been parsed
Parsed == current > 0
\* parse returned the one statement of expression e
ParsedTo(e) == presult \in {"parsing", "Ok"} /\ statements = <<ExpressionStmt(e)>>

\* C14: the cascade binds, from loosest to tightest, assignment, equality,
\* comparison, additive, multiplicative, unary, primary. With op1 looser than
\* op2: a op1 b op2 c is Binary(a, op1, Binary(b, op2, c)), a op2 b op1 c is
\* Binary(Binary(a, op2, b), op1, c) and (a op1 b) op2 c is
\* Binary(Grouping(Binary(a, op1, b)), op2, c); a = b op c assigns the Binary,
\* and a unary operator applies to its primary before any binary operator.
C14_PrecedenceCascade ==
    Parsed =>
        /\ \A op1 \in BinaryTypes, op2 \in BinaryTypes :
              /\ (Tightness(op1) < Tightness(op2) /\ tokens = Flat(op1, op2)) =>
                    ParsedTo(Binary(Var("a"), Op(op1), Binary(Var("b"), Op(op2), Var("c"))))
              /\ (Tightness(op1) < Tightness(op2) /\ tokens = Flat(op2, op1)) =>
                    ParsedTo(Binary(Binary(Var("a"), Op(op2), Var("b")), Op(op1), Var("c")))
              /\ (Tightness(op1) < Tightness(op2) /\ tokens = Grouped(op1, op2)) =>
                    ParsedTo(Binary(Grouping(Binary(Var("a"), Op(op1), Var("b"))),
                                    Op(op2), Var("c")))
        /\ \A op \in BinaryTypes :
              /\ tokens = Assigned(op) =>
                    ParsedTo(Assign(Name("a"), Binary(Var("b"), Op(op), Var("c"))))
              /\ \A u \in UnaryTypes :
                    tokens = Prefixed(u, op) =>
                        ParsedTo(Binary(Unary(Op(u), Var("a")), Op(op), Var("b")))

C14_Witness ==
    /\ presult = "Ok"
    /\ tokens = Flat("Plus", "Star")
    /\ statements[1].expr.right.kind = "Binary"

\* C15: every binary level is left-associative: with op1 and op2 of the same
\* level, a op1 b op2 c is Binary(Binary(a, op1, b), op2, c), so that
\* 8 - 4 - 2 evaluates to 2.
C15_LeftAssociative ==
    Parsed =>
        /\ \A op1 \in BinaryTypes, op2 \in BinaryTypes :
              (Tightness(op1) = Tightness(op2) /\ tokens = Flat(op1, op2)) =>
                  ParsedTo(Binary(Binary(Var("a"), Op(op1), Var("b")), Op(op2), Var("c")))
        /\ tokens = EightFourTwo =>
              /\ presult \in {"parsing", "Ok"}
              /\ Len(statements) = 1
              /\ Evaluate(statements[1].expr, <<NewEnvironment>>).res = Ok(DoubleValue(2))

C15_Witness ==
    /\ presult = "Ok"
    /\ tokens = EightFourTwo
    /\ statements[1].expr.left.kind = "Binary"

\* C16: when an equality-level expression is followed by '=', the result is
\* an Assign node only if the left side is exactly a Variable node; any other
\* successfully parsed left side makes the production fail with
\* InvalidAssignment.
C16_OnlyVariableIsAssignable ==
    \A t \in Targets, v \in {<<Nm(1)>>, <<>>} :
        (Parsed /\ tokens = ExpressionTokens(t \o <<Tk("Equal")>> \o v)) =>
            LET left == equality(tokens, NewParser)
            IN  IF left.ok /\ left.value.kind # "Variable"
                THEN presult = "InvalidAssignment" /\ statements = <<>>
                ELSE /\ presult # "InvalidAssignment"
                     /\ statements # <<>> =>
                           /\ statements[1].expr.kind = "Assign"
                           /\ statements[1].expr.name = left.value.name

C16_Witness ==
    /\ presult = "InvalidAssignment"
    /\ tokens = ExpressionTokens(<<Tk("LeftParen"), Id("a"), Tk("RightParen"),
                                   Tk("Equal"), Nm(1)>>)

\* ====================================================== evaluation inputs
\* Operands: literals of every type, a variable the frame binds, a variable
\* no frame binds and an assignment to it
Operands ==
    {Num(1), Num(2), Str("s"), Str("t"), Literal(BoolValue(TRUE)), Literal(NilValue),
     Var("a"), Var("b"), Assign(Name("b"), Num(1))}
OperatorExpressions ==
    {Binary(l, Op(o), r) : l \in Operands, o \in BinaryTypes, r \in Operands}
        \cup {Unary(Op(u), e) : u \in UnaryTypes, e \in Operands}
\* the tokens of e in a = b = e: 1, "t", a, - "s", c, c = 1
ChainValues ==
    {<<Nm(1)>>, <<[type_ |-> "String", lexeme |-> "\"t\"", literal |-> StringValue("t")]>>,
     <<Id("a")>>,
     <<Tk("Minus"), [type_ |-> "String", lexeme |-> "\"s\"", literal |-> StringValue("s")]>>,
     <<Id("c")>>, <<Id("c"), Tk("Equal"), Nm(1)>>}
\* a = b = e
ChainTokens(e) ==
    ExpressionTokens(<<Id("a"), Tk("Equal"), Id("b"), Tk("Equal")>> \o e)
\* a frame binding the names of a function to its values
Frame(values) == [enclosing |-> "None", values |-> values]
\* chains of one to three frames in which a and b are both declared
DeclaredChains ==
    LET globals == {[a |-> DoubleValue(2), b |-> NoneValue],
                    [a |-> StringValue("s"), b |-> DoubleValue(3)]}
        inner == {[n \in {} |-> NoneValue], [a |-> NoneValue], [b |-> StringValue("u")],
                  [a |-> DoubleValue(4), b |-> DoubleValue(5)]}
    IN  {<<Frame(g)>> : g \in globals}
            \cup {<<Frame(g), Frame(i)>> : g \in globals, i \in inner}
            \cup {<<Frame([a |-> DoubleValue(2)]), Frame([b |-> DoubleValue(3)])>>,
                  <<Frame([b |-> DoubleValue(3)]), Frame([a |-> DoubleValue(2)]),
                    NewEnvironment>>}
\* global frames binding a: a number, a string, uninitialized
Frames ==
    {EnvironmentDefine(NewEnvironment, "a", v) :
        v \in {DoubleValue(2), StringValue("s"), NoneValue}}

\* ------------------------------------------------------ evaluation steps
\* Parser::parse has returned for toks: the parser's variables after it
ParsedState(toks) ==
    \E r \in {parse(toks)} :
        /\ tokens = toks
        /\ current = r.p.current
        /\ statements = r.statements
        /\ diagnostics = r.p.diagnostics
        /\ presult = r.result

\* the expression of the one expression statement parse returned
ParsedExpression ==
    IF presult = "Ok" /\ Len(statements) = 1 /\ statements[1].kind = "Expression"
    THEN statements[1].expr
    ELSE NoExpr

\* an expression and the chain it is evaluated against: an operator
\* expression against a global frame, or the expression parsed from
\* a = b = e against a chain that declares a and b
EvalInit ==
    /\ \/ /\ input \in OperatorExpressions
          /\ environments \in {<<f>> : f \in Frames}
          /\ ParserIdle
       \/ /\ \E e \in ChainValues : ParsedState(ChainTokens(e))
          /\ input = ParsedExpression
          /\ environments \in DeclaredChains
    /\ given = environments
    /\ outcome = NoOutcome
    /\ phase = "evaluating"
    /\ loops = <<>>
    /\ printed = <<>>
    /\ size = 0
    /\ calls = 0
    /\ planned = 0
    /\ statuses = <<>>
    /\ cur = NoCur
    /\ last = NoLast
    /\ ScannerIdle

\* Interpreter::evaluate_expression(input, environments)
EvaluateExpression ==
    /\ phase = "evaluating"
    /\ outcome = NoOutcome
    /\ input # NoExpr
    /\ \E r \in {Evaluate(input, environments)} :
           /\ r.exact
           /\ outcome' = r.res
           /\ environments' = r.environments
    /\ UNCHANGED <<input, given, phase, loops, printed, size, calls, planned, statuses,
                   cur, last>>
    /\ UNCHANGED pvars
    /\ UNCHANGED svars

EvalNext == EvaluateExpression

EvalSpec == EvalInit /\ [][EvalNext]_vars

\* ----------------------------------------------------- evaluation claims
\* evaluate_expression has returned for a Binary, a Unary input
EvaluatedBinary == outcome # NoOutcome /\ input.kind = "Binary"
EvaluatedUnary == outcome # NoOutcome /\ input.kind = "Unary"
\* the Results of the operands of the input (no operand changes the chain)
LeftOperand == Evaluate(input.left, environments).res
RightOperand == Evaluate(input.right, environments).res
OnlyOperand == Evaluate(input.right, environments).res
\* the operator's token type
By(type_) == input.operator.type_ = type_

\* C17: for -, * and / two successfully evaluated operands that are not both
\* numbers yield InvalidBinaryOperand "Operands must be numbers"; for + two
\* numbers are added, two strings are concatenated, left text first, and
\* every other pairing yields InvalidBinaryOperand "Operands must be two
\* numbers or two strings".
C17_ArithmeticOperandTypes ==
    (EvaluatedBinary /\ LeftOperand.ok /\ RightOperand.ok) =>
        LET l == LeftOperand.value
            r == RightOperand.value
            numbers == l.t = "Double" /\ r.t = "Double"
            strings == l.t = "String" /\ r.t = "String"
        IN  /\ ((By("Minus") \/ By("Star") \/ By("Slash")) /\ ~numbers) =>
                  outcome = Err(InvalidBinaryOperand(input.operator,
                                                     "Operands must be numbers"))
            /\ (By("Plus") /\ numbers) => outcome = Ok(DoubleValue(l.d + r.d))
            /\ (By("Plus") /\ strings) => outcome = Ok(StringValue(l.s \o r.s))
            /\ (By("Plus") /\ ~numbers /\ ~strings) =>
                  outcome = Err(InvalidBinaryOperand(input.operator,
                                    "Operands must be two numbers or two strings"))

C17_Witness ==
    /\ EvaluatedBinary
    /\ By("Plus")
    /\ input.left = Var("a")
    /\ input.right = Str("t")
    /\ outcome = Ok(StringValue("st"))

\* C19 as stated: for two number operands each ordering operator returns the
\* Bool of its own relation.
C19_OrderingOperators ==
    (EvaluatedBinary /\ LeftOperand.ok /\ RightOperand.ok
        /\ LeftOperand.value.t = "Double" /\ RightOperand.value.t = "Double") =>
        LET l == LeftOperand.value.d
            r == RightOperand.value.d
        IN  /\ By("Greater") => outcome = Ok(BoolValue(l > r))
            /\ By("GreaterEqual") => outcome = Ok(BoolValue(l >= r))
            /\ By("Less") => outcome = Ok(BoolValue(l < r))
            /\ By("LessEqual") => outcome = Ok(BoolValue(l <= r))

\* the error kinds an operand's evaluation raises without an operator
Raised == {"VariableDoesNotExist", "InvalidAssignment"}

\* C20 as stated: when an operand of a Binary expression fails with an
\* undefined-variable or invalid-assignment error, the Binary expression
\* evaluates to that same error kind, exactly as a Unary expression
\* propagates its operand's error.
C20_OperandErrorPropagates ==
    /\ (EvaluatedUnary /\ ~OnlyOperand.ok /\ OnlyOperand.err.kind \in Raised) =>
          outcome = OnlyOperand
    /\ (EvaluatedBinary /\ ~LeftOperand.ok /\ LeftOperand.err.kind \in Raised) =>
          (~outcome.ok /\ outcome.err.kind \in Raised)
    /\ (EvaluatedBinary /\ LeftOperand.ok
            /\ ~RightOperand.ok /\ RightOperand.err.kind \in Raised) =>
          outcome = RightOperand

\* a = b = e has been parsed, and evaluated when outcome is set
Chained == phase = "evaluating" /\ tokens # <<>>
\* the expression e of a = b = e
ChainedValue == input.value.value
\* the innermost frame of envs that declares name
Innermost(envs, name) ==
    CHOOSE i \in 1..Len(envs) :
        /\ name \in DOMAIN envs[i].values
        /\ \A j \in (i + 1)..Len(envs) : name \notin DOMAIN envs[j].values
\* envs with value bound to the innermost a and the innermost b, nothing else changed
BoundToBoth(envs, value) ==
    [i \in 1..Len(envs) |->
        [envs[i] EXCEPT !.values =
            [n \in DOMAIN @ |->
                IF \E name \in {"a", "b"} : n = name /\ i = Innermost(envs, name)
                THEN value ELSE @[n]]]]

FailingInitialisers ==
    {Failing, Var("c"), Reassigning,
     Binary(Grouping(Assign(Name("b"), Str("t"))), Op("Plus"), Var("c")),
     Binary(Failing, Op("Plus"), Assign(Name("a"), Num(2)))}
\* the initialisers among them that hold no assignment
FailingWithoutAssign == {Failing, Var("c")}
\* no frame of after has a binding that before has not, and none was pushed
NoFrameGains(before, after) ==
    /\ Len(after) = Len(before)
    /\ \A i \in 1..Len(before) : DOMAIN after[i].values = DOMAIN before[i].values
\* a name no frame of envs declares still reads as an undefined variable
UndeclaredStaysUndefined(before, after) ==
    \A m \in Names \cup {"c"} :
        Binding(before, m) = {} =>
            Evaluate(Var(m), after).res = Err(VariableDoesNotExist)

\* C22 as stated: a Var statement, run where a statement can run next, whose
\* initialiser raises a runtime error defines nothing: no frame gains a
\* binding, a binding of that name in the current frame keeps its value, and
\* a never-declared name still reads as an undefined variable.
C22_FailedVarKeepsBinding ==
    HasNext =>
        \A n \in Names, e \in FailingInitialisers :
            \E r \in {ExecuteStatement(VarStmt(Name(n), e), environments)} :
                (r.exact /\ ~r.ok) =>
                    /\ NoFrameGains(environments, r.environments)
                    /\ n \in DOMAIN Top(environments).values =>
                           Top(r.environments).values[n] = Top(environments).values[n]
                    /\ UndeclaredStaysUndefined(environments, r.environments)

\* C22: a Var statement, run where a statement can run next, whose
\* initialiser raises a runtime error defines nothing: it reports the error,
\* no frame gains a binding, the frames are
\* left as the evaluation of the initialiser left them, so that only bindings
\* the initialiser itself assigned differ from before and an initialiser
\* without assignment leaves every binding as it was, and a never-declared
\* name still reads as an undefined variable.
C22_FailedVarDefinesNothing ==
    HasNext =>
        \A n \in Names, e \in FailingInitialisers :
            \E r \in {ExecuteStatement(VarStmt(Name(n), e), environments)},
               v \in {Evaluate(e, environments)} :
                (r.exact /\ ~r.ok) =>
                    /\ ~v.res.ok
                    /\ r.printed = <<ErrorDebug(v.res.err)>>
                    /\ NoFrameGains(environments, r.environments)
                    /\ r.environments = v.environments
                    /\ \A i \in 1..Len(environments) :
                           i \notin v.writes => r.environments[i] = environments[i]
                    /\ e \in FailingWithoutAssign => r.environments = environments
                    /\ UndeclaredStaysUndefined(environments, r.environments)

\* var a = (a = 2) - "s" has failed in a block: it assigned the a of an
\* enclosing frame, and the frame of the block did not gain a binding for a
C22_Witness ==
    /\ phase = "running"
    /\ last.op = "Var" /\ ~last.ok /\ last.name = "a"
    /\ Len(environments) = 2
    /\ last.writes = {1}
    /\ environments[1].values["a"] = DoubleValue(2)
    /\ "a" \notin DOMAIN environments[2].values

\* the index of the Eof token, counted as current counts
EofIndex == Len(tokens) - 1
\* the positions a turn of the block loop can start at
BlockTurns ==
    {q \in 0..EofIndex : tokens[q + 1].type_ \notin {"RightBrace", "Eof"}}

\* C23: for every token sequence that ends with its single Eof, parse
\* terminates: it returns; every turn of the top-level loop consumes at least
\* one token or returns an error; in the token sequence parse is given, every
\* turn of the block loop, wherever it starts, consumes at least one token or
\* returns an error, and synchronize, wherever it starts, stops at the latest
\* at the Eof.
C23_ParseTerminates ==
    /\ <>(presult # "parsing")
    /\ [][presult = "parsing" => (current' > current \/ presult' # "parsing")]_vars
    /\ \A q \in BlockTurns :
           \E d \in {declaration(tokens, ParserAt(q, <<>>))} :
               /\ d.ok => d.p.current > q
               /\ d.p.current \in q..EofIndex
    /\ \A q \in 0..EofIndex :
           synchronize(tokens, ParserAt(q, <<>>)).current \in q..EofIndex

\* parse has returned the error of a block, after an earlier turn of the
\* top-level loop, and synchronize has stopped at the Eof
C23_Witness ==
    /\ presult \notin {"parsing", "Ok"}
    /\ Len(statements) >= 1
    /\ \E i \in 1..Len(tokens) : tokens[i].type_ = "LeftBrace"
    /\ current = EofIndex
    /\ current > 0

\* the positions a declaration can start at
DeclarationStarts == {q \in 0..EofIndex : tokens[q + 1].type_ # "Eof"}

\* C24: during any parse current never decreases and never moves past the
\* index of the Eof, and no peek or previous indexes outside the tokens
\* (previous is only called with current >= 1): after every turn of parse's
\* loop, and inside every declaration of the token sequence, wherever it
\* starts, the synchronize after an error at the first token included.
C24_CursorStaysInside ==
    /\ [](current \in 0..EofIndex /\ presult # "Panicked")
    /\ [][current' >= current]_vars
    /\ \A q \in DeclarationStarts :
           \E d \in {declaration(tokens, ParserAt(q, <<>>))} :
               ~d.p.panicked /\ d.p.current \in q..EofIndex

\* the first token was an error: synchronize has advanced over it, parse has
\* returned the error
C24_Witness ==
    /\ presult \notin {"parsing", "Ok", "Panicked"}
    /\ Len(diagnostics) = 1 /\ diagnostics[1].at = 1
    /\ statements = <<>>
    /\ current >= 1

\* interpret has just been called
Entered == phase = "running" /\ last.op = "Interpret"

\* C25: every call of interpret starts from a fresh, empty global frame: no
\* binding of an earlier call on the same Interpreter is visible, so that
\* reading a name is an undefined-variable error and assigning it an
\* invalid-assignment error, until the call itself declares the name.
C25_InterpretStartsFresh ==
    Entered =>
        /\ environments = <<NewEnvironment>>
        /\ \A n \in Names :
               /\ Evaluate(Var(n), environments).res = Err(VariableDoesNotExist)
               /\ Evaluate(Assign(Name(n), Num(2)), environments).res
                      = Err(InvalidAssignment)
               /\ ExecuteStatement(PrintStmt(Var(n)), environments).printed
                      = <<ErrorDebug(VariableDoesNotExist)>>

\* the second call of interpret has begun, and the call before it had bound
\* a and b in the global frame it dropped
C25_Witness ==
    /\ Entered
    /\ calls = 2
    /\ Len(last.dropped) = 1
    /\ DOMAIN last.dropped[1].values = {"a", "b"}
    /\ last.dropped[1].values["a"] = DoubleValue(2)
====
